---- MODULE Spec2Model ----
\* A model of the neuer-error error value (src/src/error.rs): the context
\* stack `infos` of human (narration) and machine (attachment) entries, the
\* optional `source` error, the constructors, the three mutators and the
\* readers.  Spec follows one error value from its construction through a
\* bounded number of mutator calls; SpecFmt formats an error value with the
\* Display and Debug implementations; SpecRes chains the Result and Option
\* combinators of src/src/results.rs; SpecCol collects the errors of several
\* Results with or_collect; SpecRun follows a program run that builds an
\* error value and reports it as the exit code; SpecWrap converts a value
\* between NeuErr and NeuErrImpl.
EXTENDS Integers, Sequences, FiniteSets, TLC

\* ---------------------------------------------------------------- bounds
\* Number of mutator calls applied to the error value after construction.
MaxOps == 4

\* Number of combinator calls chained on one Result.
MaxCalls == 2

\* Length of the stack of the error values handed to the formatter.
MaxFmtLen == 3

\* Number of Results handed to or_collect with one collection.
MaxResults == 2

\* Number of mutator calls in a program run that ends in Termination::report.
MaxRunOps == 3

\* Number of into_error / wrap calls made on one value.
MaxConversions == 2

\* ---------------------------------------------------------------- inputs
\* Messages passed to new / new_with_source / context.
Messages == {"0", "1"}

\* Call sites (panic::Location::caller()) of the operations that add narration.
Locations == {"L1", "L2"}

\* Attachment types (the TypeId the Any downcast compares) and, per type, the
\* values a caller may attach.
Types == {"bool", "char"}

ValuesOf(ty) ==
    IF ty = "bool" THEN {"false", "true"}
    ELSE IF ty = "ExitCode" THEN {"SUCCESS", "FAILURE"}
    ELSE {"c", "d"}

\* Attachment types of a program that sets its exit code (examples/tool-cli.rs).
RunTypes == {"ExitCode", "bool"}

\* Absence of a value (Option::None).
None == "None"

\* Foreign errors used as causes, as in src/src/tests.rs: SourceError wraps a
\* ParseBoolError, which has no further source.
ForeignErrors == {"SourceError", "ParseBoolError"}

\* ---------------------------------------------------------------- entries
\* Info::Human(HumanInfo { message, location })
Human(message, location) ==
    [kind |-> "Human", message |-> message, location |-> location]

\* Info::Machine(MachineInfo { attachment }); the boxed value carries its type.
Machine(ty, attachment) ==
    [kind |-> "Machine", type |-> ty, attachment |-> attachment]

\* NeuErrImpl { infos, source }
NeuErrImpl(infos, source) == [infos |-> infos, source |-> source]

\* ---------------------------------------------------------------- helpers
RECURSIVE Reverse(_)
\* Iterator::rev over a finished sequence.
Reverse(s) == IF s = <<>> THEN <<>> ELSE Append(Reverse(Tail(s)), Head(s))

\* ------------------------------------------------------------ constructors
\* #[derive(Default)]: empty infos, no source.
default == NeuErrImpl(<<>>, None)

\* NeuErr::new
new(message, location) ==
    [default EXCEPT !.infos = <<Human(message, location)>>]

\* Variant of new_with_source that loses the source.
new_with_source_nosrc(message, location, src) ==
    NeuErrImpl(<<Human(message, location)>>, None)

\* NeuErr::new_with_source
new_with_source(message, location, src) ==
    NeuErrImpl(<<Human(message, location)>>, src)

\* NeuErr::from_source
from_source(src) == [default EXCEPT !.source = src]

\* ---------------------------------------------------------------- mutators
\* Variant of context that puts the new entry below the existing ones.
context_front(self, message, location) ==
    [self EXCEPT !.infos = <<Human(message, location)>> \o @]

\* NeuErrImpl::context: push a human entry with the caller's location.
context(self, message, location) ==
    [self EXCEPT !.infos = Append(@, Human(message, location))]

\* Variant of attach that first removes the entries of the same type.
attach_replacing(self, ty, value) ==
    LET Other(info) == ~(info.kind = "Machine" /\ info.type = ty)
    IN [self EXCEPT !.infos = Append(SelectSeq(@, Other), Machine(ty, value))]

\* NeuErrImpl::attach: push a machine entry.
attach(self, ty, value) ==
    [self EXCEPT !.infos = Append(@, Machine(ty, value))]

\* Variant of the closure that keeps the later entries of the same type.
override_closure_keepdup(info, ty, st) ==
    IF info.kind = "Machine" /\ info.type = ty /\ ~st.inserted
    THEN [keep |-> TRUE, info |-> Machine(ty, st.context),
          context |-> info.attachment, inserted |-> TRUE]
    ELSE [keep |-> TRUE, info |-> info,
          context |-> st.context, inserted |-> st.inserted]

\* Variant of the closure that drops the attachments of other types.
override_closure_dropother(info, ty, st) ==
    IF info.kind = "Machine"
    THEN IF info.type = ty /\ ~st.inserted
         THEN [keep |-> TRUE, info |-> Machine(ty, st.context),
               context |-> info.attachment, inserted |-> TRUE]
         ELSE [keep |-> FALSE, info |-> info,
               context |-> st.context, inserted |-> st.inserted]
    ELSE [keep |-> TRUE, info |-> info,
          context |-> st.context, inserted |-> st.inserted]

\* Variant of the closure that drops the human entries met after the
\* replacement.
override_closure_drophuman(info, ty, st) ==
    IF info.kind = "Machine"
    THEN IF info.type = ty
         THEN IF ~st.inserted
              THEN [keep |-> TRUE, info |-> Machine(ty, st.context),
                    context |-> info.attachment, inserted |-> TRUE]
              ELSE [keep |-> FALSE, info |-> info,
                    context |-> st.context, inserted |-> st.inserted]
         ELSE [keep |-> TRUE, info |-> info,
               context |-> st.context, inserted |-> st.inserted]
    ELSE [keep |-> ~st.inserted, info |-> info,
          context |-> st.context, inserted |-> st.inserted]

\* Variant of the closure that never sets `inserted`.
override_closure_noflag(info, ty, st) ==
    IF info.kind = "Machine" /\ info.type = ty
    THEN [keep |-> TRUE, info |-> Machine(ty, st.context),
          context |-> info.attachment, inserted |-> FALSE]
    ELSE [keep |-> TRUE, info |-> info,
          context |-> st.context, inserted |-> st.inserted]

\* The closure given to retain_mut in attach_override, applied to one entry.
\* st carries the closure's captures: `context` (the value still to be placed)
\* and `inserted`.  The result says whether the entry is kept, what the entry
\* holds afterwards, and the captures afterwards.
override_closure(info, ty, st) ==
    IF info.kind = "Machine"
    THEN IF info.type = ty
         THEN IF ~st.inserted
              THEN [keep |-> TRUE,
                    info |-> Machine(ty, st.context),
                    context |-> info.attachment,
                    inserted |-> TRUE]
              ELSE [keep |-> FALSE, info |-> info,
                    context |-> st.context, inserted |-> st.inserted]
         ELSE [keep |-> TRUE, info |-> info,
               context |-> st.context, inserted |-> st.inserted]
    ELSE [keep |-> TRUE, info |-> info,
          context |-> st.context, inserted |-> st.inserted]

RECURSIVE retain_mut(_, _, _, _)
\* Vec::retain_mut with the closure above: visits the entries in order, once
\* each, keeping those for which the closure returns true.
retain_mut(rest, kept, ty, st) ==
    IF rest = <<>>
    THEN [infos |-> kept, context |-> st.context, inserted |-> st.inserted]
    ELSE LET r == override_closure(Head(rest), ty, st)
         IN retain_mut(Tail(rest),
                       IF r.keep THEN Append(kept, r.info) ELSE kept,
                       ty,
                       [context |-> r.context, inserted |-> r.inserted])

\* Variant of attach_override that rebuilds the value around the new stack and
\* leaves the source at its default.
attach_override_losesource(self, ty, value) ==
    LET r == retain_mut(self.infos, <<>>, ty,
                        [context |-> value, inserted |-> FALSE])
    IN IF ~r.inserted
       THEN NeuErrImpl(Append(r.infos, Machine(ty, r.context)), None)
       ELSE NeuErrImpl(r.infos, None)

\* Variant of attach_override that removes every entry of the type and appends
\* the new value at the end.
attach_override_append(self, ty, value) ==
    LET Other(info) == ~(info.kind = "Machine" /\ info.type = ty)
    IN [self EXCEPT !.infos = Append(SelectSeq(@, Other), Machine(ty, value))]

\* Variant of attach_override that pushes the new value and keeps the old
\* entries of the type.
attach_override_push(self, ty, value) ==
    [self EXCEPT !.infos = Append(@, Machine(ty, value))]

\* NeuErrImpl::attach_override
attach_override(self, ty, value) ==
    LET r == retain_mut(self.infos, <<>>, ty,
                        [context |-> value, inserted |-> FALSE])
    IN IF ~r.inserted
       THEN [self EXCEPT !.infos = Append(r.infos, Machine(ty, r.context))]
       ELSE [self EXCEPT !.infos = r.infos]

\* The other eviction strategy for replace semantics, of an earlier iteration
\* of attach_override: remove every entry of the type, then append the new
\* value at the end.
attach_override_evict_all(self, ty, value) ==
    LET Other(info) == ~(info.kind = "Machine" /\ info.type = ty)
    IN [self EXCEPT !.infos = Append(SelectSeq(@, Other), Machine(ty, value))]

\* ----------------------------------------------------------------- readers
\* NeuErrImpl::infos: the stack, newest entry first.
infos(self) == Reverse(self.infos)

IsHuman(info) == info.kind = "Human"

\* Variant of contexts that walks the stack oldest first.
contexts_forward(self) == SelectSeq(self.infos, IsHuman)

\* Variant of contexts that stops at the first entry that is not human.
contexts_until_machine(self) ==
    LET s == infos(self)
        stops == {i \in 1..Len(s) : ~IsHuman(s[i])}
        k == IF stops = {} THEN Len(s) + 1
             ELSE CHOOSE i \in stops : \A j \in stops : i <= j
    IN SubSeq(s, 1, k - 1)

\* NeuErrImpl::contexts: the human entries, newest first.
contexts(self) == SelectSeq(infos(self), IsHuman)

\* The messages of contexts(), as tests.rs reads them.
narrations(self) ==
    LET c == contexts(self) IN [i \in 1..Len(c) |-> c[i].message]

\* Variant of attachments that walks the stack oldest first.
attachments_forward(self, ty) ==
    LET IsC(info) == info.kind = "Machine" /\ info.type = ty
        m == SelectSeq(self.infos, IsC)
    IN [i \in 1..Len(m) |-> m[i].attachment]

\* Variant of attachments that yields the machine entries of every type.
attachments_anytype(self, ty) ==
    LET IsM(info) == info.kind = "Machine"
        m == SelectSeq(infos(self), IsM)
    IN [i \in 1..Len(m) |-> m[i].attachment]

\* NeuErrImpl::attachments::<C>: the values of the machine entries whose
\* downcast to C succeeds, newest first.
attachments(self, ty) ==
    LET IsC(info) == info.kind = "Machine" /\ info.type = ty
        m == SelectSeq(infos(self), IsC)
    IN [i \in 1..Len(m) |-> m[i].attachment]

\* Variant of attachment that takes the last item of attachments().
attachment_oldest(self, ty) ==
    LET a == attachments(self, ty) IN IF a = <<>> THEN None ELSE a[Len(a)]

\* NeuErrImpl::attachment::<C>: attachments().next()
attachment(self, ty) ==
    LET a == attachments(self, ty) IN IF a = <<>> THEN None ELSE a[1]

\* NeuErr::source
source(self) == self.source

\* ------------------------------------------------------- termination
\* Variant of report that ignores the attachments.
report_failure(self) == "FAILURE"

\* Termination::report: the ExitCode attachment, or ExitCode::FAILURE.
report(self) ==
    LET c == attachment(self, "ExitCode")
    IN IF c = None THEN "FAILURE" ELSE c

\* ------------------------------------------- NeuErr and NeuErrImpl
\* The tuple struct NeuErr(NeuErrImpl) is a one-element tuple; a NeuErrImpl
\* is the record itself.

\* Variant of into_error that leaves the source behind.
into_error_nosource(self) == [self[1] EXCEPT !.source = None]

\* NeuErr::into_error: self.0
into_error(self) == self[1]

\* NeuErrImpl::wrap: NeuErr(self)
wrap(self) == <<self>>

\* <NeuErrImpl as Error>::source
Error_source(self) == self.source

\* ------------------------------------------------------ foreign errors
\* Error::source of the foreign errors: SourceError returns its ParseBoolError,
\* which has none.
ErrorSource(e) == IF e = "SourceError" THEN "ParseBoolError" ELSE None

\* Display of the foreign errors (the message of ParseBoolError without its
\* back-quotes, which a TLA+ string cannot hold).
ErrorDisplay(e) ==
    IF e = "SourceError" THEN "SourceError occurred"
    ELSE "provided string was not true or false"

\* Debug of the foreign errors.
ErrorDebug(e) ==
    IF e = "SourceError" THEN "SourceError(ParseBoolError)" ELSE "ParseBoolError"

\* Display of a call site: file:line:column.
LocationDisplay(l) ==
    IF l = "L1" THEN "src/tests.rs:116:14" ELSE "src/tests.rs:116:31"

\* Debug of a call site.
LocationDebug(l) ==
    IF l = "L1"
    THEN "Location { file: \"src/tests.rs\", line: 116, column: 14 }"
    ELSE "Location { file: \"src/tests.rs\", line: 116, column: 31 }"

\* Debug of an attached value: a bool prints bare, a char in quotes.
ValueDebug(ty, v) ==
    IF ty = "char" THEN (IF v = "c" THEN "'c'" ELSE "'d'") ELSE v

\* -------------------------------------------------------------- rendering
\* Formatter output is the sequence of pieces written to it: each literal part
\* of a format string and each formatted argument is one piece, "\n" is the
\* line break of writeln!.  The build is the default one (no "colors").

RECURSIVE fmt_contexts_trailing(_, _)
\* Variant of the loop that writes the joiner after every block, without
\* peeking for a further entry.
fmt_contexts_trailing(human, alternate) ==
    IF human = <<>> THEN <<>>
    ELSE LET ctx == Head(human)
         IN (IF alternate
             THEN <<ctx.message, " (at ", LocationDisplay(ctx.location), ")", "; ">>
             ELSE <<ctx.message, "\n", "|- at ", LocationDisplay(ctx.location),
                    "\n", "|", "\n">>)
            \o fmt_contexts_trailing(Tail(human), alternate)

RECURSIVE fmt_contexts(_, _)
\* Display::fmt, the `while let Some(context) = human.next()` loop: one block
\* per human entry, and a joiner only when human.peek() sees a further entry.
fmt_contexts(human, alternate) ==
    IF human = <<>> THEN <<>>
    ELSE LET ctx == Head(human)
             rest == Tail(human)
         IN (IF alternate
             THEN <<ctx.message, " (at ", LocationDisplay(ctx.location), ")">>
                  \o (IF rest # <<>> THEN <<"; ">> ELSE <<>>)
             ELSE <<ctx.message, "\n", "|- at ", LocationDisplay(ctx.location)>>
                  \o (IF rest # <<>> THEN <<"\n", "|", "\n">> ELSE <<>>))
            \o fmt_contexts(rest, alternate)

RECURSIVE fmt_sources_multiline(_, _)
\* Variant of the source loop that writes the multi-line block in both modes.
fmt_sources_multiline(src, alternate) ==
    IF src = None THEN <<>>
    ELSE <<"\n", "|", "\n", "|- caused by: ", ErrorDisplay(src)>>
         \o fmt_sources_multiline(ErrorSource(src), alternate)

\* Variant of the source loop that does not follow err.source().
fmt_sources_onelink(src, alternate) ==
    IF src = None THEN <<>>
    ELSE IF alternate
         THEN <<"; caused by: ", ErrorDisplay(src)>>
         ELSE <<"\n", "|", "\n", "|- caused by: ", ErrorDisplay(src)>>

RECURSIVE fmt_sources(_, _)
\* Display::fmt, the `while let Some(err) = source` loop: one block per link,
\* then source = err.source().
fmt_sources(src, alternate) ==
    IF src = None THEN <<>>
    ELSE (IF alternate
          THEN <<"; caused by: ", ErrorDisplay(src)>>
          ELSE <<"\n", "|", "\n", "|- caused by: ", ErrorDisplay(src)>>)
         \o fmt_sources(ErrorSource(src), alternate)

\* Variant of Display::fmt that writes the placeholder only when there is no
\* source either.
Display_fmt_placeholder(self, alternate) ==
    LET human == contexts(self)
    IN (IF human = <<>> /\ self.source = None
        THEN <<"Unknown error">> ELSE <<>>)
       \o fmt_contexts(human, alternate)
       \o fmt_sources(self.source, alternate)

\* Variant of Display::fmt that walks infos() and writes a block for the
\* machine entries too.
Display_fmt_all(self, alternate) ==
    LET all == infos(self)
        human == [i \in 1..Len(all) |->
                    IF all[i].kind = "Human" THEN all[i]
                    ELSE Human(all[i].attachment, "L1")]
    IN (IF human = <<>> THEN <<"Unknown error">> ELSE <<>>)
       \o fmt_contexts(human, alternate)
       \o fmt_sources(self.source, alternate)

\* impl Display for NeuErrImpl
Display_fmt(self, alternate) ==
    LET human == contexts(self)
    IN (IF human = <<>> THEN <<"Unknown error">> ELSE <<>>)
       \o fmt_contexts(human, alternate)
       \o fmt_sources(self.source, alternate)

\* derive(Debug) of Info / HumanInfo / MachineInfo for one entry.
Info_debug(info) ==
    IF info.kind = "Human"
    THEN <<"Human(", "HumanInfo {",
           "message: ", "\"" \o info.message \o "\"",
           "location: ", LocationDebug(info.location), "}", ")">>
    ELSE <<"Machine(", "MachineInfo {",
           "attachment: ", ValueDebug(info.type, info.attachment), "}", ")">>

RECURSIVE Vec_debug(_)
\* Debug of Vec<Info>: the entries in storage order.
Vec_debug(stack) ==
    IF stack = <<>> THEN <<>>
    ELSE Info_debug(Head(stack)) \o Vec_debug(Tail(stack))

\* Debug of Option<Box<dyn Error>>.
Option_debug(src) ==
    IF src = None THEN <<"None">> ELSE <<"Some(", ErrorDebug(src), ")">>

\* Variant of Debug::fmt that dumps the stack through infos(), newest first.
Debug_fmt_newest_first(self, alternate) ==
    IF alternate
    THEN <<"NeuErr {", "infos: ", "[">> \o Vec_debug(infos(self)) \o <<"]">>
         \o <<"source: ">> \o Option_debug(self.source) \o <<"}">>
    ELSE Display_fmt(self, alternate)

\* impl Debug for NeuErrImpl.  The pieces of the alternate form are those of
\* debug_struct / derive(Debug); the pretty printer's indentation and commas
\* are not written out.
Debug_fmt(self, alternate) ==
    IF alternate
    THEN <<"NeuErr {", "infos: ", "[">> \o Vec_debug(self.infos) \o <<"]">>
         \o <<"source: ">> \o Option_debug(self.source) \o <<"}">>
    ELSE Display_fmt(self, alternate)

\* ------------------------------------------------------------- combinators
\* Result<T, NeuErr> (type "NeuErr"), Result<T, E> with a foreign error E
\* (type "E") and Option<T> values.
Ok(ety, value) == [type |-> ety, tag |-> "Ok", value |-> value]

Err(ety, error) == [type |-> ety, tag |-> "Err", error |-> error]

Some(value) == [type |-> "Option", tag |-> "Some", value |-> value]

OptionNone == [type |-> "Option", tag |-> "None"]

\* What a combinator call gives: the returned Result and the arguments its
\* closure was invoked with (one element per invocation; "()" for a closure
\* without parameters).
Returned(result, invocations) == [res |-> result, closure |-> invocations]

\* ---- impl<T> CtxResultExt for Result<T, CtxError>; CtxError is the name
\* results.rs and tests.rs use for the error type NeuErr of error.rs.
\* `location` is the call site of the combinator: the methods that add
\* narration are #[track_caller], so Location::caller() inside the mutator
\* or constructor they call resolves to it.

\* Variant of context without #[track_caller]: the entry records the line of
\* results.rs that calls err.context.
CtxResultExt_context_untracked(self, message, location) ==
    IF self.tag = "Ok"
    THEN Returned(Ok("NeuErr", self.value), <<>>)
    ELSE Returned(Err("NeuErr",
                      context(self.error, message, "src/results.rs:77:27")),
                  <<>>)

CtxResultExt_context(self, message, location) ==
    IF self.tag = "Ok"
    THEN Returned(Ok("NeuErr", self.value), <<>>)
    ELSE Returned(Err("NeuErr", context(self.error, message, location)), <<>>)

\* context_fn is given by the message it returns.
CtxResultExt_context_with(self, context_fn, location) ==
    IF self.tag = "Ok"
    THEN Returned(Ok("NeuErr", self.value), <<>>)
    ELSE Returned(Err("NeuErr", context(self.error, context_fn, location)),
                  <<"()">>)

\* self.map_err(|err| err.attach(context))
CtxResultExt_attach(self, ty, value) ==
    IF self.tag = "Ok"
    THEN Returned(Ok("NeuErr", self.value), <<>>)
    ELSE Returned(Err("NeuErr", attach(self.error, ty, value)), <<>>)

\* Variant of attach_with that calls context_fn before looking at self.
CtxResultExt_attach_with_eager(self, ty, context_fn) ==
    IF self.tag = "Ok"
    THEN Returned(Ok("NeuErr", self.value), <<"()">>)
    ELSE Returned(Err("NeuErr", attach(self.error, ty, context_fn)), <<"()">>)

\* self.map_err(|err| err.attach(context_fn())); context_fn is given by the
\* value it returns.
CtxResultExt_attach_with(self, ty, context_fn) ==
    IF self.tag = "Ok"
    THEN Returned(Ok("NeuErr", self.value), <<>>)
    ELSE Returned(Err("NeuErr", attach(self.error, ty, context_fn)), <<"()">>)

CtxResultExt_attach_override(self, ty, value) ==
    IF self.tag = "Ok"
    THEN Returned(Ok("NeuErr", self.value), <<>>)
    ELSE Returned(Err("NeuErr", attach_override(self.error, ty, value)), <<>>)

CtxResultExt_attach_override_with(self, ty, context_fn) ==
    IF self.tag = "Ok"
    THEN Returned(Ok("NeuErr", self.value), <<>>)
    ELSE Returned(Err("NeuErr", attach_override(self.error, ty, context_fn)),
                  <<"()">>)

\* ---- impl<T, E> ConvertResult<T, E> for Result<T, E>
\* Variant of ConvertResult::context that starts from a fresh error and drops
\* the foreign one.
ConvertResult_context_nosource(self, message, location) ==
    IF self.tag = "Ok"
    THEN Returned(Ok("NeuErr", self.value), <<>>)
    ELSE Returned(Err("NeuErr", new(message, location)), <<>>)

ConvertResult_context(self, message, location) ==
    IF self.tag = "Ok"
    THEN Returned(Ok("NeuErr", self.value), <<>>)
    ELSE Returned(Err("NeuErr",
                      context(from_source(self.error), message, location)),
                  <<>>)

\* context_fn(&err) is called before err is moved into from_source.
ConvertResult_context_with(self, context_fn, location) ==
    IF self.tag = "Ok"
    THEN Returned(Ok("NeuErr", self.value), <<>>)
    ELSE Returned(Err("NeuErr",
                      context(from_source(self.error), context_fn, location)),
                  <<self.error>>)

ConvertResult_attach(self, ty, value) ==
    IF self.tag = "Ok"
    THEN Returned(Ok("NeuErr", self.value), <<>>)
    ELSE Returned(Err("NeuErr", attach(from_source(self.error), ty, value)),
                  <<>>)

ConvertResult_attach_with(self, ty, context_fn) ==
    IF self.tag = "Ok"
    THEN Returned(Ok("NeuErr", self.value), <<>>)
    ELSE Returned(Err("NeuErr",
                      attach(from_source(self.error), ty, context_fn)),
                  <<self.error>>)

ConvertResult_attach_override(self, ty, value) ==
    IF self.tag = "Ok"
    THEN Returned(Ok("NeuErr", self.value), <<>>)
    ELSE Returned(Err("NeuErr",
                      attach_override(from_source(self.error), ty, value)),
                  <<>>)

ConvertResult_attach_override_with(self, ty, context_fn) ==
    IF self.tag = "Ok"
    THEN Returned(Ok("NeuErr", self.value), <<>>)
    ELSE Returned(Err("NeuErr",
                      attach_override(from_source(self.error), ty, context_fn)),
                  <<self.error>>)

\* ---- impl<T> ConvertOption<T> for Option<T>
ConvertOption_context(self, message, location) ==
    IF self.tag = "Some"
    THEN Returned(Ok("NeuErr", self.value), <<>>)
    ELSE Returned(Err("NeuErr", new(message, location)), <<>>)

ConvertOption_context_with(self, context_fn, location) ==
    IF self.tag = "Some"
    THEN Returned(Ok("NeuErr", self.value), <<>>)
    ELSE Returned(Err("NeuErr", new(context_fn, location)), <<"()">>)

\* Variant of ConvertOption::attach that attaches to an error made by new
\* with an empty message.
ConvertOption_attach_on_new(self, ty, value) ==
    IF self.tag = "Some"
    THEN Returned(Ok("NeuErr", self.value), <<>>)
    ELSE Returned(Err("NeuErr", attach(new("", "L1"), ty, value)), <<>>)

\* self.ok_or_else(|| CtxError::default().attach(context))
ConvertOption_attach(self, ty, value) ==
    IF self.tag = "Some"
    THEN Returned(Ok("NeuErr", self.value), <<>>)
    ELSE Returned(Err("NeuErr", attach(default, ty, value)), <<>>)

ConvertOption_attach_with(self, ty, context_fn) ==
    IF self.tag = "Some"
    THEN Returned(Ok("NeuErr", self.value), <<>>)
    ELSE Returned(Err("NeuErr", attach(default, ty, context_fn)), <<"()">>)

ConvertOption_attach_override(self, ty, value) ==
    IF self.tag = "Some"
    THEN Returned(Ok("NeuErr", self.value), <<>>)
    ELSE Returned(Err("NeuErr", attach_override(default, ty, value)), <<>>)

ConvertOption_attach_override_with(self, ty, context_fn) ==
    IF self.tag = "Some"
    THEN Returned(Ok("NeuErr", self.value), <<>>)
    ELSE Returned(Err("NeuErr", attach_override(default, ty, context_fn)),
                  <<"()">>)

\* ---- impl<T, E> ResultExt<T, E> for Result<T, E>
\* Variant of or_collect that empties the collection before it adds the error.
ResultExt_or_collect_clearing(self, collection) ==
    IF self.tag = "Ok"
    THEN [opt |-> Some(self.value), collection |-> collection]
    ELSE [opt |-> OptionNone, collection |-> <<self.error>>]

\* ResultExt::or_collect: what it returns and what it leaves in the
\* collection; Vec's Extend pushes the one item of the iterator at the end.
ResultExt_or_collect(self, collection) ==
    IF self.tag = "Ok"
    THEN [opt |-> Some(self.value), collection |-> collection]
    ELSE [opt |-> OptionNone, collection |-> Append(collection, self.error)]

\* ------------------------------------------------------------------- state
VARIABLES
    err,        \* the error value (NeuErrImpl)
    pre,        \* the error value before the last operation
    lastOp,     \* the last operation and its arguments
    ctxLog,     \* messages given to new / new_with_source / context, in call order
    attLog,     \* per type, the values given to attach, in call order
    overridden, \* types for which attach_override has been called
    live,       \* per type, the values supplied since (and including) the last
                \* attach_override of that type, in call order
    run,        \* length of the current run of attach_override calls of one type
    nops,       \* number of mutator calls so far
    out,        \* the pieces written by the last format call
    fmtOp,      \* the last format call: trait and alternate flag
    res,        \* the Result a combinator returned
    resPre,     \* the Result or Option the combinator was called on
    resOp,      \* the combinator called and its arguments
    closure,    \* the arguments the closure of a _with combinator was
                \* invoked with, one element per invocation
    ncalls,     \* number of combinator calls so far
    sites,      \* call sites of the operations that added narration to the
                \* error inside res, in call order
    errors,     \* the Vec<NeuErr> handed to or_collect
    opt,        \* the Option<T> the last or_collect returned
    passed,     \* the Results or_collect was called on, in call order
    evict,      \* the error value had every attach_override removed all
                \* entries of the type and appended the new one
    swapped,    \* the error value had the last two mutators been called in
                \* the opposite order
    prevOp,     \* the operation before the last one
    code,       \* the ExitCode Termination::report returned
    held,       \* the value held across into_error / wrap
    form,       \* which type held has: "NeuErr" or "NeuErrImpl"
    nconv       \* number of into_error / wrap calls so far

errVars == <<err, pre, lastOp, ctxLog, attLog, overridden, live, run, nops>>

fmtVars == <<out, fmtOp>>

resVars == <<res, resPre, resOp, closure, ncalls, sites>>

colVars == <<errors, opt, passed>>

runVars == <<evict, swapped, prevOp, code>>

wrapVars == <<held, form, nconv>>

vars == <<errVars, fmtVars, resVars, colVars, runVars, wrapVars>>

\* No format call made.
FmtIdle == out = <<>> /\ fmtOp = [trait |-> None, alternate |-> FALSE]

\* A combinator call: the trait, the method, the attachment type (attach
\* methods), the message or attached value, and the call site (context
\* methods).
ResOp(trait, method, ty, val, loc) ==
    [trait |-> trait, method |-> method, type |-> ty, value |-> val,
     location |-> loc]

\* No combinator called.
NoResult == [type |-> None, tag |-> "NoCall"]

ResIdle ==
    /\ res = NoResult
    /\ resPre = NoResult
    /\ resOp = ResOp(None, None, None, None, None)
    /\ closure = <<>>
    /\ ncalls = 0
    /\ sites = <<>>

\* No or_collect called.
ColIdle ==
    /\ errors = <<>>
    /\ opt = [tag |-> "NoCall"]
    /\ passed = <<>>

\* No conversion between NeuErr and NeuErrImpl made.
WrapIdle ==
    /\ held = default
    /\ form = None
    /\ nconv = 0

\* A call record: the operation, its type argument (the attachment type of
\* attach / attach_override, the cause of new_with_source / from_source), its
\* value argument (the message or the attached value) and its call site.
Op(op, ty, val, loc) == [op |-> op, type |-> ty, value |-> val, location |-> loc]

\* No program run followed to its exit.
RunIdle ==
    /\ evict = default
    /\ swapped = default
    /\ prevOp = Op(None, None, None, None)
    /\ code = None

Ghost0 ==
    /\ attLog = [t \in Types |-> <<>>]
    /\ overridden = {}
    /\ live = [t \in Types |-> <<>>]
    /\ run = 0
    /\ nops = 0

\* The error value any of the four constructors gives, and the call made.
Constructed ==
    /\ \/ \E m \in Messages, l \in Locations :
            /\ err = new(m, l)
            /\ lastOp = Op("new", None, m, l)
            /\ ctxLog = <<m>>
       \/ \E m \in Messages, l \in Locations, s \in ForeignErrors :
            /\ err = new_with_source(m, l, s)
            /\ lastOp = Op("new_with_source", s, m, l)
            /\ ctxLog = <<m>>
       \/ \E s \in ForeignErrors :
            /\ err = from_source(s)
            /\ lastOp = Op("from_source", s, None, None)
            /\ ctxLog = <<>>
       \/ /\ err = default
          /\ lastOp = Op("default", None, None, None)
          /\ ctxLog = <<>>
    /\ pre = err

\* The state after construction, by any of the four constructors.
Init ==
    /\ Ghost0
    /\ FmtIdle
    /\ ResIdle
    /\ ColIdle
    /\ RunIdle
    /\ WrapIdle
    /\ Constructed

\* err = err.context(m), called at l.
Context ==
    \E m \in Messages, l \in Locations :
        /\ nops < MaxOps
        /\ err' = context(err, m, l)
        /\ pre' = err
        /\ lastOp' = Op("context", None, m, l)
        /\ ctxLog' = Append(ctxLog, m)
        /\ run' = 0
        /\ nops' = nops + 1
        /\ UNCHANGED <<attLog, overridden, live, fmtVars, resVars, colVars, runVars, wrapVars>>

\* err = err.attach(v) with v of type ty.
Attach ==
    \E ty \in Types : \E v \in ValuesOf(ty) :
        /\ nops < MaxOps
        /\ err' = attach(err, ty, v)
        /\ pre' = err
        /\ lastOp' = Op("attach", ty, v, None)
        /\ attLog' = [attLog EXCEPT ![ty] = Append(@, v)]
        /\ live' = [live EXCEPT ![ty] = Append(@, v)]
        /\ run' = 0
        /\ nops' = nops + 1
        /\ UNCHANGED <<ctxLog, overridden, fmtVars, resVars, colVars, runVars, wrapVars>>

\* err = err.attach_override(v) with v of type ty.
AttachOverride ==
    \E ty \in Types : \E v \in ValuesOf(ty) :
        /\ nops < MaxOps
        /\ err' = attach_override(err, ty, v)
        /\ pre' = err
        /\ lastOp' = Op("attach_override", ty, v, None)
        /\ overridden' = overridden \cup {ty}
        /\ live' = [live EXCEPT ![ty] = <<v>>]
        /\ run' = IF lastOp.op = "attach_override" /\ lastOp.type = ty
                  THEN run + 1 ELSE 1
        /\ nops' = nops + 1
        /\ UNCHANGED <<ctxLog, attLog, fmtVars, resVars, colVars, runVars, wrapVars>>

Next == Context \/ Attach \/ AttachOverride

Spec == Init /\ [][Next]_vars

\* ------------------------------------------- a run ending in report
\* A program builds an error value, attaching exit codes on the way, and
\* returns it from main.  Next to the value the run keeps two more: the value
\* the other eviction strategy would hold, and the value with the last two
\* mutator calls made in the opposite order.

\* The value a recorded mutator call gives on e.
Applied(e, op) ==
    CASE op.op = "context" -> context(e, op.value, op.location)
      [] op.op = "attach" -> attach(e, op.type, op.value)
      [] op.op = "attach_override" -> attach_override(e, op.type, op.value)
      [] OTHER -> e

\* The value after the call op, had op been called before the last mutator
\* instead of after it.
Swapped(op) ==
    IF lastOp.op \in {"context", "attach", "attach_override"}
    THEN Applied(Applied(pre, op), lastOp)
    ELSE Applied(err, op)

InitRun ==
    /\ attLog = [t \in RunTypes |-> <<>>]
    /\ overridden = {}
    /\ live = [t \in RunTypes |-> <<>>]
    /\ run = 0
    /\ nops = 0
    /\ Constructed
    /\ evict = err
    /\ swapped = err
    /\ prevOp = Op(None, None, None, None)
    /\ code = None
    /\ FmtIdle
    /\ ResIdle
    /\ ColIdle
    /\ WrapIdle

\* err = err.context(m), called at l.
RunContext ==
    \E m \in Messages, l \in Locations :
        /\ code = None
        /\ nops < MaxRunOps
        /\ err' = context(err, m, l)
        /\ evict' = context(evict, m, l)
        /\ swapped' = Swapped(Op("context", None, m, l))
        /\ pre' = err
        /\ prevOp' = lastOp
        /\ lastOp' = Op("context", None, m, l)
        /\ ctxLog' = Append(ctxLog, m)
        /\ run' = 0
        /\ nops' = nops + 1
        /\ UNCHANGED <<attLog, overridden, live, code,
                       fmtVars, resVars, colVars, wrapVars>>

\* err = err.attach(v) with v of type ty.
RunAttach ==
    \E ty \in RunTypes : \E v \in ValuesOf(ty) :
        /\ code = None
        /\ nops < MaxRunOps
        /\ err' = attach(err, ty, v)
        /\ evict' = attach(evict, ty, v)
        /\ swapped' = Swapped(Op("attach", ty, v, None))
        /\ pre' = err
        /\ prevOp' = lastOp
        /\ lastOp' = Op("attach", ty, v, None)
        /\ attLog' = [attLog EXCEPT ![ty] = Append(@, v)]
        /\ live' = [live EXCEPT ![ty] = Append(@, v)]
        /\ run' = 0
        /\ nops' = nops + 1
        /\ UNCHANGED <<ctxLog, overridden, code,
                       fmtVars, resVars, colVars, wrapVars>>

\* err = err.attach_override(v) with v of type ty.
RunAttachOverride ==
    \E ty \in RunTypes : \E v \in ValuesOf(ty) :
        /\ code = None
        /\ nops < MaxRunOps
        /\ err' = attach_override(err, ty, v)
        /\ evict' = attach_override_evict_all(evict, ty, v)
        /\ swapped' = Swapped(Op("attach_override", ty, v, None))
        /\ pre' = err
        /\ prevOp' = lastOp
        /\ lastOp' = Op("attach_override", ty, v, None)
        /\ overridden' = overridden \cup {ty}
        /\ live' = [live EXCEPT ![ty] = <<v>>]
        /\ run' = IF lastOp.op = "attach_override" /\ lastOp.type = ty
                  THEN run + 1 ELSE 1
        /\ nops' = nops + 1
        /\ UNCHANGED <<ctxLog, attLog, code,
                       fmtVars, resVars, colVars, wrapVars>>

\* main returns Err(err): Termination::report consumes the value.
Report ==
    /\ code = None
    /\ code' = report(err)
    /\ UNCHANGED <<errVars, evict, swapped, prevOp,
                   fmtVars, resVars, colVars, wrapVars>>

NextRun == RunContext \/ RunAttach \/ RunAttachOverride \/ Report

SpecRun == InitRun /\ [][NextRun]_vars

\* ------------------------------------------------- formatting an error
\* Every entry a caller can push.
Entries ==
    {Human(m, l) : m \in Messages, l \in Locations}
    \cup UNION {{Machine(ty, v) : v \in ValuesOf(ty)} : ty \in Types}

\* The error values with at most MaxFmtLen entries: each is what default or
\* from_source followed by one context or attach call per entry builds.
FmtValues ==
    {NeuErrImpl(stack, src) :
        stack \in UNION {[1..k -> Entries] : k \in 0..MaxFmtLen},
        src \in {None} \cup ForeignErrors}

\* The messages of the human entries of a raw stack, in stack order.
MessagesOf(stack) ==
    LET h == SelectSeq(stack, IsHuman) IN [i \in 1..Len(h) |-> h[i].message]

\* The values of the machine entries of type ty of a raw stack, in stack order.
ValuesIn(stack, ty) ==
    LET IsC(info) == info.kind = "Machine" /\ info.type = ty
        m == SelectSeq(stack, IsC)
    IN [i \in 1..Len(m) |-> m[i].attachment]

\* The history of a value built by default or from_source and one push per
\* entry.
BuiltByPushes(e) ==
    LET n == Len(e.infos)
        top == e.infos[n]
    IN /\ ctxLog = MessagesOf(e.infos)
       /\ attLog = [ty \in Types |-> ValuesIn(e.infos, ty)]
       /\ live = attLog
       /\ overridden = {}
       /\ run = 0
       /\ nops = n
       /\ IF n = 0
          THEN /\ pre = e
               /\ lastOp = IF e.source = None
                           THEN Op("default", None, None, None)
                           ELSE Op("from_source", e.source, None, None)
          ELSE /\ pre = [e EXCEPT !.infos = SubSeq(e.infos, 1, n - 1)]
               /\ lastOp = IF top.kind = "Human"
                           THEN Op("context", None, top.message, top.location)
                           ELSE Op("attach", top.type, top.attachment, None)

\* An error value about to be formatted.
InitFmt ==
    /\ err \in FmtValues
    /\ BuiltByPushes(err)
    /\ FmtIdle
    /\ ResIdle
    /\ ColIdle
    /\ RunIdle
    /\ WrapIdle

\* format!("{err}") and format!("{err:#}")
DisplayFmt ==
    \E alternate \in BOOLEAN :
        /\ out' = Display_fmt(err, alternate)
        /\ fmtOp' = [trait |-> "Display", alternate |-> alternate]
        /\ UNCHANGED <<errVars, resVars, colVars, runVars, wrapVars>>

\* format!("{err:?}") and format!("{err:#?}")
DebugFmt ==
    \E alternate \in BOOLEAN :
        /\ out' = Debug_fmt(err, alternate)
        /\ fmtOp' = [trait |-> "Debug", alternate |-> alternate]
        /\ UNCHANGED <<errVars, resVars, colVars, runVars, wrapVars>>

NextFmt == DisplayFmt \/ DebugFmt

SpecFmt == InitFmt /\ [][NextFmt]_vars

\* -------------------------------------------------- combinators on Results
\* Values a successful Result or a present Option carries.
OkValues == {"()", "true"}

\* The error values the constructors give.
ConstructedValues ==
    {new(m, l) : m \in Messages, l \in Locations}
    \cup {new_with_source(m, l, c) :
            m \in Messages, l \in Locations, c \in ForeignErrors}
    \cup {from_source(c) : c \in ForeignErrors}
    \cup {default}

\* The Results and Options a combinator chain starts from.
ResultInputs ==
    {Ok("NeuErr", v) : v \in OkValues}
    \cup {Err("NeuErr", e) : e \in ConstructedValues}
    \cup {Ok("E", v) : v \in OkValues}
    \cup {Err("E", f) : f \in ForeignErrors}
    \cup {Some(v) : v \in OkValues}
    \cup {OptionNone}

\* The same inputs, each with the call sites of the constructor calls that
\* built the error inside it.
Constructions ==
    {[res |-> Err("NeuErr", new(m, l)), sites |-> <<l>>] :
        m \in Messages, l \in Locations}
    \cup {[res |-> Err("NeuErr", new_with_source(m, l, c)), sites |-> <<l>>] :
            m \in Messages, l \in Locations, c \in ForeignErrors}
    \cup {[res |-> r, sites |-> <<>>] :
            r \in {Err("NeuErr", from_source(c)) : c \in ForeignErrors}
                  \cup {Err("NeuErr", default)}
                  \cup {i \in ResultInputs : i.tag # "Err" \/ i.type # "NeuErr"}}

InitRes ==
    /\ res \in ResultInputs
    /\ \E c \in Constructions : c.res = res /\ sites = c.sites
    /\ resPre = res
    /\ resOp = ResOp(None, None, None, None, None)
    /\ closure = <<>>
    /\ ncalls = 0
    /\ err = default
    /\ BuiltByPushes(err)
    /\ FmtIdle
    /\ ColIdle
    /\ RunIdle
    /\ WrapIdle

\* One combinator call on res: op is the call, ret what the method gives.
Call(op, ret) ==
    /\ ncalls < MaxCalls
    /\ res' = ret.res
    /\ closure' = ret.closure
    /\ resOp' = op
    /\ resPre' = res
    /\ ncalls' = ncalls + 1
    /\ sites' = IF op.method \in {"context", "context_with"}
                    /\ res.tag \in {"Err", "None"}
                 THEN Append(sites, op.location)
                 ELSE sites
    /\ UNCHANGED <<errVars, fmtVars, colVars, runVars, wrapVars>>

\* res = res.context(..) of CtxResultExt, on a Result<T, NeuErr>, called at l.
CtxResultExtContext ==
    /\ res.type = "NeuErr"
    /\ \E m \in Messages, l \in Locations :
          Call(ResOp("CtxResultExt", "context", None, m, l),
               CtxResultExt_context(res, m, l))

\* res = res.context_with(..) of CtxResultExt, on a Result<T, NeuErr>, called at l.
CtxResultExtContextWith ==
    /\ res.type = "NeuErr"
    /\ \E m \in Messages, l \in Locations :
          Call(ResOp("CtxResultExt", "context_with", None, m, l),
               CtxResultExt_context_with(res, m, l))

\* res = res.attach(..) of CtxResultExt, on a Result<T, NeuErr>.
CtxResultExtAttach ==
    /\ res.type = "NeuErr"
    /\ \E ty \in Types : \E v \in ValuesOf(ty) :
          Call(ResOp("CtxResultExt", "attach", ty, v, None),
               CtxResultExt_attach(res, ty, v))

\* res = res.attach_with(..) of CtxResultExt, on a Result<T, NeuErr>.
CtxResultExtAttachWith ==
    /\ res.type = "NeuErr"
    /\ \E ty \in Types : \E v \in ValuesOf(ty) :
          Call(ResOp("CtxResultExt", "attach_with", ty, v, None),
               CtxResultExt_attach_with(res, ty, v))

\* res = res.attach_override(..) of CtxResultExt, on a Result<T, NeuErr>.
CtxResultExtAttachOverride ==
    /\ res.type = "NeuErr"
    /\ \E ty \in Types : \E v \in ValuesOf(ty) :
          Call(ResOp("CtxResultExt", "attach_override", ty, v, None),
               CtxResultExt_attach_override(res, ty, v))

\* res = res.attach_override_with(..) of CtxResultExt, on a Result<T, NeuErr>.
CtxResultExtAttachOverrideWith ==
    /\ res.type = "NeuErr"
    /\ \E ty \in Types : \E v \in ValuesOf(ty) :
          Call(ResOp("CtxResultExt", "attach_override_with", ty, v, None),
               CtxResultExt_attach_override_with(res, ty, v))

\* res = res.context(..) of ConvertResult, on a Result<T, E>, called at l.
ConvertResultContext ==
    /\ res.type = "E"
    /\ \E m \in Messages, l \in Locations :
          Call(ResOp("ConvertResult", "context", None, m, l),
               ConvertResult_context(res, m, l))

\* res = res.context_with(..) of ConvertResult, on a Result<T, E>, called at l.
ConvertResultContextWith ==
    /\ res.type = "E"
    /\ \E m \in Messages, l \in Locations :
          Call(ResOp("ConvertResult", "context_with", None, m, l),
               ConvertResult_context_with(res, m, l))

\* res = res.attach(..) of ConvertResult, on a Result<T, E>.
ConvertResultAttach ==
    /\ res.type = "E"
    /\ \E ty \in Types : \E v \in ValuesOf(ty) :
          Call(ResOp("ConvertResult", "attach", ty, v, None),
               ConvertResult_attach(res, ty, v))

\* res = res.attach_with(..) of ConvertResult, on a Result<T, E>.
ConvertResultAttachWith ==
    /\ res.type = "E"
    /\ \E ty \in Types : \E v \in ValuesOf(ty) :
          Call(ResOp("ConvertResult", "attach_with", ty, v, None),
               ConvertResult_attach_with(res, ty, v))

\* res = res.attach_override(..) of ConvertResult, on a Result<T, E>.
ConvertResultAttachOverride ==
    /\ res.type = "E"
    /\ \E ty \in Types : \E v \in ValuesOf(ty) :
          Call(ResOp("ConvertResult", "attach_override", ty, v, None),
               ConvertResult_attach_override(res, ty, v))

\* res = res.attach_override_with(..) of ConvertResult, on a Result<T, E>.
ConvertResultAttachOverrideWith ==
    /\ res.type = "E"
    /\ \E ty \in Types : \E v \in ValuesOf(ty) :
          Call(ResOp("ConvertResult", "attach_override_with", ty, v, None),
               ConvertResult_attach_override_with(res, ty, v))

\* res = res.context(..) of ConvertOption, on an Option<T>, called at l.
ConvertOptionContext ==
    /\ res.type = "Option"
    /\ \E m \in Messages, l \in Locations :
          Call(ResOp("ConvertOption", "context", None, m, l),
               ConvertOption_context(res, m, l))

\* res = res.context_with(..) of ConvertOption, on an Option<T>, called at l.
ConvertOptionContextWith ==
    /\ res.type = "Option"
    /\ \E m \in Messages, l \in Locations :
          Call(ResOp("ConvertOption", "context_with", None, m, l),
               ConvertOption_context_with(res, m, l))

\* res = res.attach(..) of ConvertOption, on an Option<T>.
ConvertOptionAttach ==
    /\ res.type = "Option"
    /\ \E ty \in Types : \E v \in ValuesOf(ty) :
          Call(ResOp("ConvertOption", "attach", ty, v, None),
               ConvertOption_attach(res, ty, v))

\* res = res.attach_with(..) of ConvertOption, on an Option<T>.
ConvertOptionAttachWith ==
    /\ res.type = "Option"
    /\ \E ty \in Types : \E v \in ValuesOf(ty) :
          Call(ResOp("ConvertOption", "attach_with", ty, v, None),
               ConvertOption_attach_with(res, ty, v))

\* res = res.attach_override(..) of ConvertOption, on an Option<T>.
ConvertOptionAttachOverride ==
    /\ res.type = "Option"
    /\ \E ty \in Types : \E v \in ValuesOf(ty) :
          Call(ResOp("ConvertOption", "attach_override", ty, v, None),
               ConvertOption_attach_override(res, ty, v))

\* res = res.attach_override_with(..) of ConvertOption, on an Option<T>.
ConvertOptionAttachOverrideWith ==
    /\ res.type = "Option"
    /\ \E ty \in Types : \E v \in ValuesOf(ty) :
          Call(ResOp("ConvertOption", "attach_override_with", ty, v, None),
               ConvertOption_attach_override_with(res, ty, v))

NextRes ==
    \/ CtxResultExtContext
    \/ CtxResultExtContextWith
    \/ CtxResultExtAttach
    \/ CtxResultExtAttachWith
    \/ CtxResultExtAttachOverride
    \/ CtxResultExtAttachOverrideWith
    \/ ConvertResultContext
    \/ ConvertResultContextWith
    \/ ConvertResultAttach
    \/ ConvertResultAttachWith
    \/ ConvertResultAttachOverride
    \/ ConvertResultAttachOverrideWith
    \/ ConvertOptionContext
    \/ ConvertOptionContextWith
    \/ ConvertOptionAttach
    \/ ConvertOptionAttachWith
    \/ ConvertOptionAttachOverride
    \/ ConvertOptionAttachOverrideWith

SpecRes == InitRes /\ [][NextRes]_vars

\* ------------------------------------------------- collecting errors
\* The Results a function hands to or_collect: the constructed inputs of type
\* Result<T, NeuErr>, bare or with an attachment added on the way.
Produced ==
    LET own == {c \in Constructions : c.res.type = "NeuErr"}
    IN own \cup {[res |-> CtxResultExt_attach(c.res, "bool", "true").res,
                   sites |-> c.sites] : c \in own}

\* let mut errors = Vec::new(), no Result in hand yet.
InitCol ==
    /\ ResIdle
    /\ ColIdle
    /\ err = default
    /\ BuiltByPushes(err)
    /\ FmtIdle
    /\ RunIdle
    /\ WrapIdle

\* The next fallible operation returns its Result.
Produce ==
    /\ res = NoResult
    /\ Len(passed) < MaxResults
    /\ \E c \in Produced :
          /\ res' = c.res
          /\ sites' = c.sites
    /\ resPre' = res'
    /\ resOp' = ResOp(None, None, None, None, None)
    /\ closure' = <<>>
    /\ UNCHANGED <<ncalls, errVars, fmtVars, colVars, runVars, wrapVars>>

\* opt = res.or_collect(&mut errors); res is moved into the call.
OrCollect ==
    /\ res.type = "NeuErr"
    /\ LET r == ResultExt_or_collect(res, errors)
       IN /\ opt' = r.opt
          /\ errors' = r.collection
    /\ passed' = Append(passed, res)
    /\ res' = NoResult
    /\ resPre' = res
    /\ resOp' = ResOp("ResultExt", "or_collect", None, None, None)
    /\ closure' = <<>>
    /\ sites' = <<>>
    /\ UNCHANGED <<ncalls, errVars, fmtVars, runVars, wrapVars>>

NextCol == Produce \/ OrCollect

SpecCol == InitCol /\ [][NextCol]_vars

\* ------------------------------------------ into_error and wrap
\* A NeuErr built by default or from_source and context / attach calls; err
\* keeps what it held when built.
InitWrap ==
    /\ err \in FmtValues
    /\ BuiltByPushes(err)
    /\ held = wrap(err)
    /\ form = "NeuErr"
    /\ nconv = 0
    /\ FmtIdle
    /\ ResIdle
    /\ ColIdle
    /\ RunIdle

\* held = held.into_error()
IntoError ==
    /\ form = "NeuErr"
    /\ nconv < MaxConversions
    /\ held' = into_error(held)
    /\ form' = "NeuErrImpl"
    /\ nconv' = nconv + 1
    /\ UNCHANGED <<errVars, fmtVars, resVars, colVars, runVars>>

\* held = held.wrap()
Wrap ==
    /\ form = "NeuErrImpl"
    /\ nconv < MaxConversions
    /\ held' = wrap(held)
    /\ form' = "NeuErr"
    /\ nconv' = nconv + 1
    /\ UNCHANGED <<errVars, fmtVars, resVars, colVars, runVars>>

NextWrap == IntoError \/ Wrap

SpecWrap == InitWrap /\ [][NextWrap]_vars

\* ------------------------------------------------------- claim vocabulary
Mutators == {"context", "attach", "attach_override"}

\* Entry is an attachment of type ty.
IsOfType(info, ty) == info.kind = "Machine" /\ info.type = ty

\* Positions of the attachments of type ty in a raw stack.
PositionsOf(stack, ty) == {i \in DOMAIN stack : IsOfType(stack[i], ty)}

\* A raw stack without its attachments of type ty, in stack order.
WithoutType(stack, ty) ==
    LET Other(info) == ~IsOfType(info, ty) IN SelectSeq(stack, Other)

\* The narration entries of a raw stack, in stack (insertion) order.
HumansOf(stack) == SelectSeq(stack, IsHuman)

IsPrefix(s, t) == Len(s) <= Len(t) /\ SubSeq(t, 1, Len(s)) = s

Min(S) == CHOOSE x \in S : \A y \in S : x <= y

\* C1: narrations() yields exactly the messages given to new and context, in
\* reverse call order, whatever attach / attach_override calls came between.
C1_NarrationsReverseInsertion ==
    narrations(err) = Reverse(ctxLog)

\* Three narrations with differing first and last message, attachments and an
\* override in between.
C1_Witness ==
    /\ Len(ctxLog) >= 3
    /\ ctxLog[1] # ctxLog[Len(ctxLog)]
    /\ overridden # {}
    /\ lastOp.op = "context"
    /\ Len(err.infos) > Len(ctxLog)

\* C2: after a run of N >= 1 attach_override calls of type T the stack holds
\* exactly one attachment of type T, holding the value of the last call.
C2_OverrideLeavesOne ==
    lastOp.op = "attach_override" =>
        LET P == PositionsOf(err.infos, lastOp.type)
        IN /\ Cardinality(P) = 1
           /\ \A i \in P : err.infos[i].attachment = lastOp.value

\* A second override in a row, on a value that had held two attachments of the
\* type, supplying a value other than the one held.
C2_Witness ==
    /\ lastOp.op = "attach_override"
    /\ run >= 2
    /\ Len(attLog[lastOp.type]) >= 2
    /\ attachment(pre, lastOp.type) # lastOp.value

\* C3: attach_override of type T leaves the stack restricted to narrations and
\* attachments of other types identical.
C3_OverrideFramesOtherEntries ==
    lastOp.op = "attach_override" =>
        WithoutType(err.infos, lastOp.type) = WithoutType(pre.infos, lastOp.type)

\* The stack held a narration and attachments of types A, B, A before the
\* override of A.
C3_Witness ==
    /\ lastOp.op = "attach_override"
    /\ Len(pre.infos) = 4
    /\ IsHuman(pre.infos[1])
    /\ IsOfType(pre.infos[2], lastOp.type)
    /\ pre.infos[3].kind = "Machine" /\ pre.infos[3].type # lastOp.type
    /\ IsOfType(pre.infos[4], lastOp.type)
    /\ Len(err.infos) = 3

\* C4: with an attachment of type T present, attach_override(v) puts v at the
\* position of the oldest one and drops the others of the type; with none
\* present it appends v like attach.
C4_OverridePosition ==
    lastOp.op = "attach_override" =>
        LET ty == lastOp.type
            P  == PositionsOf(pre.infos, ty)
        IN IF P # {}
           THEN /\ Min(P) \in DOMAIN err.infos
                /\ err.infos[Min(P)] = Machine(ty, lastOp.value)
                /\ PositionsOf(err.infos, ty) = {Min(P)}
                /\ Len(err.infos) = Len(pre.infos) - Cardinality(P) + 1
           ELSE err = attach(pre, ty, lastOp.value)

\* The oldest entry of the type was below other entries, and a later one of
\* the type was dropped: the survivor is not the top of the stack.
C4_Witness ==
    /\ lastOp.op = "attach_override"
    /\ Cardinality(PositionsOf(pre.infos, lastOp.type)) >= 2
    /\ Min(PositionsOf(pre.infos, lastOp.type)) < Len(err.infos)
    /\ pre.infos[Min(PositionsOf(pre.infos, lastOp.type))].attachment # lastOp.value

\* C5: while no attach_override of type T has been called, attachments::<T>()
\* yields as many values as attach was called with type T.
C5_AttachCount ==
    \A ty \in Types :
        ty \notin overridden => Len(attachments(err, ty)) = Len(attLog[ty])

\* Two attach calls of one type, none overridden, while another type was
\* overridden.
C5_Witness ==
    \E ty \in Types :
        /\ ty \notin overridden
        /\ overridden # {}
        /\ Len(attLog[ty]) = 2
        /\ lastOp.op = "attach" /\ lastOp.type = ty

\* C6: attachments::<T>() yields the attachments of type T newest first, and
\* attachment::<T>() is the first of them, the most recently supplied value.
C6_AttachmentsNewestFirst ==
    \A ty \in Types :
        /\ attachments(err, ty) = Reverse(live[ty])
        /\ live[ty] # <<>> => attachment(err, ty) = live[ty][Len(live[ty])]

\* attach(false), attach('c'), attach(true): the bool lookup returns true.
C6_Witness ==
    /\ attLog["bool"] = <<"false", "true">>
    /\ attLog["char"] = <<"c">>
    /\ overridden = {}
    /\ lastOp = Op("attach", "bool", "true", None)
    /\ err.infos[Len(err.infos) - 1] = Machine("char", "c")
    /\ attachment(err, "bool") = "true"

\* C7: attachments::<T>() yields exactly the entries stored with type T,
\* unaffected by entries of other types; with no entry of type T,
\* attachment::<T>() is absent and attachments::<T>() is empty.
C7_ExactTypeLookup ==
    \A ty \in Types :
        LET a == attachments(err, ty)
            P == PositionsOf(err.infos, ty)
        IN /\ Len(a) = Cardinality(P)
           /\ \A i \in DOMAIN a : a[i] \in ValuesOf(ty)
           /\ {a[i] : i \in DOMAIN a} = {err.infos[j].attachment : j \in P}
           /\ P = {} => a = <<>> /\ attachment(err, ty) = None
           /\ P # {} => attachment(err, ty) \in ValuesOf(ty)

\* Attachments of one type are stored and none of the other: the lookup of
\* the other type is absent.
C7_Witness ==
    \E ty \in Types, other \in Types :
        /\ Cardinality(PositionsOf(err.infos, other)) >= 2
        /\ PositionsOf(err.infos, ty) = {}
        /\ attachment(err, ty) = None
        /\ attachments(err, ty) = <<>>
        /\ attachment(err, other) \in ValuesOf(other)

\* C8: across context, attach and attach_override the narration entries before
\* the operation are a prefix, in insertion order, of those after it.
C8_NarrationsPrefix ==
    lastOp.op \in Mutators => IsPrefix(HumansOf(pre.infos), HumansOf(err.infos))

\* An attach_override that removed an entry from a stack with narrations on
\* both sides of the replaced entry.
C8_Witness ==
    /\ lastOp.op = "attach_override"
    /\ Len(err.infos) < Len(pre.infos)
    /\ Len(HumansOf(pre.infos)) >= 2
    /\ IsHuman(pre.infos[Len(pre.infos)])

\* C9 as stated: after context, attach or attach_override every entry present
\* before is still present with the same content at the same position.
C9_Original ==
    lastOp.op \in Mutators => IsPrefix(pre.infos, err.infos)

\* Number of entries of type ty at positions below i of a raw stack, beyond
\* the first one of the type (the ones attach_override drops).
DroppedBelow(stack, ty, i) ==
    LET P == PositionsOf(stack, ty)
    IN Cardinality({j \in P : j < i /\ j # Min(P)})

\* C9 (amended): context and attach leave every earlier entry in place with
\* its content; attach_override of type T leaves every entry that is not an
\* attachment of type T with its content, moved down only by the number of
\* dropped entries of type T below it.
C9_EarlierEntriesKept ==
    /\ lastOp.op \in {"context", "attach"} =>
           /\ IsPrefix(pre.infos, err.infos)
           /\ Len(err.infos) = Len(pre.infos) + 1
    /\ lastOp.op = "attach_override" =>
           \A i \in DOMAIN pre.infos :
               ~IsOfType(pre.infos[i], lastOp.type) =>
                   LET k == i - DroppedBelow(pre.infos, lastOp.type, i)
                   IN k \in DOMAIN err.infos /\ err.infos[k] = pre.infos[i]

\* An attach_override that moved a narration down past a dropped entry.
C9_Witness ==
    /\ lastOp.op = "attach_override"
    /\ \E i \in DOMAIN pre.infos :
          /\ IsHuman(pre.infos[i])
          /\ DroppedBelow(pre.infos, lastOp.type, i) >= 1
          /\ err.infos[i - 1] = pre.infos[i]

\* C10: new(m) holds the one narration m, no attachment, no cause;
\* new_with_source(m, c) the same with cause c; from_source(c) no narration, no
\* attachment, cause c; the default value nothing at all.
C10_ConstructorStates ==
    nops = 0 =>
        /\ \A ty \in Types : attachments(err, ty) = <<>>
        /\ Len(err.infos) = Len(narrations(err))
        /\ lastOp.op = "new" =>
              /\ err.infos = <<Human(lastOp.value, lastOp.location)>>
              /\ narrations(err) = <<lastOp.value>>
              /\ source(err) = None
        /\ lastOp.op = "new_with_source" =>
              /\ err.infos = <<Human(lastOp.value, lastOp.location)>>
              /\ narrations(err) = <<lastOp.value>>
              /\ source(err) = lastOp.type
        /\ lastOp.op = "from_source" =>
              /\ narrations(err) = <<>>
              /\ source(err) = lastOp.type
        /\ lastOp.op = "default" =>
              /\ narrations(err) = <<>>
              /\ source(err) = None

\* A value fresh from new_with_source, with a cause that has a cause itself.
C10_Witness ==
    /\ nops = 0
    /\ lastOp.op = "new_with_source"
    /\ source(err) = "SourceError"
    /\ Len(err.infos) = 1

\* C11: context, attach and attach_override never set, replace or clear the
\* source: source() after a mutator call is what it was before the call, and so
\* what the constructor set.
C11_SourceFixed ==
    [][source(err') = source(err)]_vars

\* A value constructed with a cause, after all three mutators have acted on it.
C11_Witness ==
    /\ source(err) = "SourceError"
    /\ nops >= 3
    /\ Len(ctxLog) >= 2
    /\ overridden # {}
    /\ \E ty \in Types : attLog[ty] # <<>>

\* ---------------------------------------------------- rendering claims
\* The human entries of the formatted value, oldest first.
Narr == HumansOf(err.infos)

RECURSIVE Flatten(_)
\* Concatenation of a sequence of piece sequences.
Flatten(ss) == IF ss = <<>> THEN <<>> ELSE Head(ss) \o Flatten(Tail(ss))

RECURSIVE Intersperse(_, _)
\* The blocks with sep between consecutive ones.
Intersperse(blocks, sep) ==
    IF Len(blocks) <= 1 THEN blocks
    ELSE <<Head(blocks), sep>> \o Intersperse(Tail(blocks), sep)

\* Entry number i counted from the newest of the human entries.
NewestFirst(i) == Narr[Len(Narr) + 1 - i]

\* The narration part of the expanded form: two-line blocks, newest first,
\* a '|' line between consecutive blocks.
ExpandedNarration ==
    Flatten(Intersperse(
        [i \in 1..Len(Narr) |->
            <<NewestFirst(i).message, "\n",
              "|- at ", LocationDisplay(NewestFirst(i).location)>>],
        <<"\n", "|", "\n">>))

\* The narration part of the compact form.
CompactNarration ==
    Flatten(Intersperse(
        [i \in 1..Len(Narr) |->
            <<NewestFirst(i).message,
              " (at ", LocationDisplay(NewestFirst(i).location), ")">>],
        <<"; ">>))

RECURSIVE ChainFrom(_)
\* The causal chain from a cause outward.
ChainFrom(c) == IF c = None THEN <<>> ELSE <<c>> \o ChainFrom(ErrorSource(c))

\* The links of the formatted value's causal chain, immediate cause first.
Chain == ChainFrom(err.source)

\* The causal chain text of the two forms.
ExpandedCauses ==
    Flatten([i \in 1..Len(Chain) |->
        <<"\n", "|", "\n", "|- caused by: ", ErrorDisplay(Chain[i])>>])

CompactCauses ==
    Flatten([i \in 1..Len(Chain) |-> <<"; caused by: ", ErrorDisplay(Chain[i])>>])

\* The pieces of an output that are messages or locations of entries.
EntryPieces(o) ==
    LET IsEntryPiece(p) ==
            p \in Messages \cup {LocationDisplay(l) : l \in Locations}
    IN SelectSeq(o, IsEntryPiece)

PiecesOf(o) == {o[i] : i \in DOMAIN o}

\* C12: the expanded form of an error with k >= 1 narrations is the two-line
\* blocks newest first with a '|' line between consecutive blocks only; what
\* follows the last block is the causal chain text and nothing when there is
\* no cause.  With no narration the text starts with 'Unknown error' and has
\* no block.
C12_ExpandedBlocks ==
    (fmtOp.trait = "Display" /\ ~fmtOp.alternate) =>
        IF Narr # <<>>
        THEN /\ IsPrefix(ExpandedNarration, out)
             /\ SubSeq(out, Len(ExpandedNarration) + 1, Len(out)) = ExpandedCauses
             /\ err.source = None => out = ExpandedNarration
             /\ "Unknown error" \notin PiecesOf(out)
        ELSE /\ out[1] = "Unknown error"
             /\ "|- at " \notin PiecesOf(out)

\* Three narrations and no cause, rendered in the expanded form.
C12_Witness ==
    /\ fmtOp = [trait |-> "Display", alternate |-> FALSE]
    /\ Len(Narr) = 3
    /\ Narr[1].message # Narr[3].message
    /\ Narr[1].location # Narr[3].location
    /\ err.source = None
    /\ Len(out) = 3 * 4 + 2 * 3

\* C13: the compact form holds the same entries in the same order as the
\* expanded form, each as '<message> (at <location>)', joined by '; ' between
\* consecutive blocks only, then '; caused by: <message>' per causal link, and
\* no line break.
C13_CompactLine ==
    (fmtOp.trait = "Display" /\ fmtOp.alternate) =>
        /\ out = (IF Narr = <<>> THEN <<"Unknown error">> ELSE <<>>)
                 \o CompactNarration \o CompactCauses
        /\ EntryPieces(out) = EntryPieces(Display_fmt(err, FALSE))
        /\ "\n" \notin PiecesOf(out)

\* Two narrations, an attachment and a chain of two causes, rendered compact.
C13_Witness ==
    /\ fmtOp = [trait |-> "Display", alternate |-> TRUE]
    /\ Len(Narr) = 2
    /\ Narr[1] # Narr[2]
    /\ Len(err.infos) = 3
    /\ Len(Chain) = 2
    /\ out[5] = "; "
    /\ out[Len(out)] = ErrorDisplay("ParseBoolError")

\* C14: an error with no narration and a cause renders as 'Unknown error'
\* followed by the causal chain text, in both forms.
C14_PlaceholderThenCauses ==
    (fmtOp.trait = "Display" /\ Narr = <<>> /\ err.source # None) =>
        out = <<"Unknown error">>
              \o (IF fmtOp.alternate THEN CompactCauses ELSE ExpandedCauses)

\* A value as from_source builds it, carrying attachments, rendered expanded.
C14_Witness ==
    /\ fmtOp = [trait |-> "Display", alternate |-> FALSE]
    /\ Narr = <<>>
    /\ Len(err.infos) >= 2
    /\ err.source = "SourceError"
    /\ out[1] = "Unknown error"
    /\ out[5] = "|- caused by: "

\* The messages written after a 'caused by' prefix, in output order.
CausedBy(o) ==
    LET After(i) == i > 1 /\ o[i - 1] \in {"; caused by: ", "|- caused by: "}
        at == SelectSeq([i \in 1..Len(o) |-> i], After)
    IN [k \in 1..Len(at) |-> o[at[k]]]

\* Position of the last piece of an output that belongs to a narration block
\* (0 when there is none).
LastEntryPiece(o) ==
    LET P == {i \in DOMAIN o :
                o[i] \in {"|- at ", " (at ", "Unknown error"}}
    IN IF P = {} THEN 0 ELSE CHOOSE i \in P : \A j \in P : j <= i

\* C15: in both forms the causal chain is written after the narration part,
\* one 'caused by' block per link from the immediate cause outward, ending at
\* the link without a further cause; without a cause no block is written.
C15_OneBlockPerLink ==
    fmtOp.trait = "Display" =>
        /\ CausedBy(out) = [i \in 1..Len(Chain) |-> ErrorDisplay(Chain[i])]
        /\ \A i \in DOMAIN out :
              out[i] \in {"; caused by: ", "|- caused by: "} =>
                  /\ i > LastEntryPiece(out)
                  /\ out[i] = IF fmtOp.alternate THEN "; caused by: "
                              ELSE "|- caused by: "
        /\ err.source = None => CausedBy(out) = <<>>

\* A chain of two links below two narrations, rendered expanded.
C15_Witness ==
    /\ fmtOp = [trait |-> "Display", alternate |-> FALSE]
    /\ Chain = <<"SourceError", "ParseBoolError">>
    /\ Len(Narr) = 2
    /\ CausedBy(out) = <<"SourceError occurred",
                         "provided string was not true or false">>

\* A value without its machine entries.
WithoutAttachments(e) == [e EXCEPT !.infos = HumansOf(@)]

\* C16: the rendered text does not depend on the attachments: it is the text
\* of the value stripped of its attachments, and attaching or overriding any
\* further value leaves it the same, in both forms.
C16_AttachmentsInvisible ==
    fmtOp.trait = "Display" =>
        /\ out = Display_fmt(WithoutAttachments(err), fmtOp.alternate)
        /\ \A ty \in Types : \A v \in ValuesOf(ty) :
              /\ Display_fmt(attach(err, ty, v), fmtOp.alternate) = out
              /\ Display_fmt(attach_override(err, ty, v), fmtOp.alternate) = out

\* Attachments of two types around a narration.
C16_Witness ==
    /\ fmtOp.trait = "Display"
    /\ Len(err.infos) = 3
    /\ err.infos[1].kind = "Machine"
    /\ IsHuman(err.infos[2])
    /\ err.infos[3].kind = "Machine"
    /\ err.infos[1].type # err.infos[3].type
    /\ Len(out) >= 4

\* The pieces of a field dump that show the content of entries: quoted
\* messages and attached values, in output order.
DumpedContent(o) ==
    LET After(i) == i > 1 /\ o[i - 1] \in {"message: ", "attachment: "}
        at == SelectSeq([i \in 1..Len(o) |-> i], After)
    IN [k \in 1..Len(at) |-> o[at[k]]]

\* The content of the entries of a raw stack as Debug shows it, in stack order.
ContentOf(stack) ==
    [i \in 1..Len(stack) |->
        IF stack[i].kind = "Human"
        THEN "\"" \o stack[i].message \o "\""
        ELSE ValueDebug(stack[i].type, stack[i].attachment)]

NarrativePieces ==
    {"Unknown error", "|- at ", " (at ", "; caused by: ", "|- caused by: ", "|"}

\* C17: '{err:?}' gives the expanded Display text; '{err:#?}' gives a field
\* dump: the stack 'infos' oldest entry first, then 'source', with no
\* narrative formatting.
C17_DebugForms ==
    fmtOp.trait = "Debug" =>
        IF ~fmtOp.alternate
        THEN out = Display_fmt(err, FALSE)
        ELSE /\ DumpedContent(out) = ContentOf(err.infos)
             /\ \E i, j \in DOMAIN out :
                   /\ out[i] = "infos: " /\ out[j] = "source: " /\ i < j
                   /\ \A k \in DOMAIN out :
                         out[k] \in {"message: ", "attachment: "} => i < k /\ k < j
                   /\ SubSeq(out, j + 1, Len(out) - 1) =
                         (IF err.source = None THEN <<"None">>
                          ELSE <<"Some(", ErrorDebug(err.source), ")">>)
             /\ PiecesOf(out) \cap NarrativePieces = {}

\* The dump of a stack holding narrations with an attachment between them,
\* and a cause.
C17_Witness ==
    /\ fmtOp = [trait |-> "Debug", alternate |-> TRUE]
    /\ Len(err.infos) = 3
    /\ IsHuman(err.infos[1])
    /\ err.infos[2].kind = "Machine"
    /\ IsHuman(err.infos[3])
    /\ err.infos[1].message # err.infos[3].message
    /\ err.source = "SourceError"
    /\ out[1] = "NeuErr {"

\* --------------------------------------------------- combinator claims
ContextMethods == {"context", "context_with"}

WithMethods == {"context_with", "attach_with", "attach_override_with"}

\* The error value a mutator gives for the arguments of a combinator call.
MutatorApplied(e, op) ==
    IF op.method \in ContextMethods
    THEN context(e, op.value, op.location)
    ELSE IF op.method \in {"attach", "attach_with"}
         THEN attach(e, op.type, op.value)
         ELSE attach_override(e, op.type, op.value)

\* Number of machine entries of a raw stack.
MachineCount(stack) ==
    Cardinality({i \in DOMAIN stack : stack[i].kind = "Machine"})

\* C18: on a Result<T, NeuErr> every CtxResultExt method returns an Ok input
\* unchanged without invoking the closure; on Err it returns Err of the error
\* with the corresponding mutator applied once, the closure of a _with method
\* invoked exactly once.
C18_CtxResultExtPassThrough ==
    resOp.trait = "CtxResultExt" =>
        IF resPre.tag = "Ok"
        THEN res = resPre /\ closure = <<>>
        ELSE /\ res = Err("NeuErr", MutatorApplied(resPre.error, resOp))
             /\ Len(res.error.infos) <= Len(resPre.error.infos) + 1
             /\ closure = IF resOp.method \in WithMethods THEN <<"()">> ELSE <<>>

\* The second call of a chain on an Err: attach_override_with replacing the
\* attachment the first call added.
C18_Witness ==
    /\ resOp.trait = "CtxResultExt"
    /\ resOp.method = "attach_override_with"
    /\ ncalls = 2
    /\ resPre.tag = "Err"
    /\ attachment(resPre.error, resOp.type) \notin {None, resOp.value}
    /\ attachments(res.error, resOp.type) = <<resOp.value>>
    /\ closure = <<"()">>

\* C19: on a Result<T, E> every ConvertResult method passes Ok through; on
\* Err(e) the error returned has e as its source, the one narration given and
\* no attachment for the context methods, no narration and the one attachment
\* given for the attach methods; a _with closure is invoked once, with e.
C19_ConvertResult ==
    resOp.trait = "ConvertResult" =>
        IF resPre.tag = "Ok"
        THEN res = Ok("NeuErr", resPre.value) /\ closure = <<>>
        ELSE /\ res.tag = "Err"
             /\ source(res.error) = resPre.error
             /\ Len(res.error.infos) = 1
             /\ IF resOp.method \in ContextMethods
                THEN /\ narrations(res.error) = <<resOp.value>>
                     /\ MachineCount(res.error.infos) = 0
                     /\ \A ty \in Types : attachments(res.error, ty) = <<>>
                ELSE /\ narrations(res.error) = <<>>
                     /\ MachineCount(res.error.infos) = 1
                     /\ attachments(res.error, resOp.type) = <<resOp.value>>
             /\ closure = IF resOp.method \in WithMethods
                          THEN <<resPre.error>> ELSE <<>>

\* context_with on Err(SourceError): the closure saw the foreign error.
C19_Witness ==
    /\ resOp.trait = "ConvertResult"
    /\ resOp.method = "context_with"
    /\ resPre = Err("E", "SourceError")
    /\ closure = <<"SourceError">>
    /\ source(res.error) = "SourceError"
    /\ narrations(res.error) = <<resOp.value>>

\* C20: on an Option<T> every ConvertOption method maps Some(v) to Ok(v)
\* without invoking the closure; on None the error returned has no cause, the
\* one narration given and no attachment for the context methods, no
\* narration and the one attachment given for the attach methods.
C20_ConvertOption ==
    resOp.trait = "ConvertOption" =>
        IF resPre.tag = "Some"
        THEN res = Ok("NeuErr", resPre.value) /\ closure = <<>>
        ELSE /\ res.tag = "Err"
             /\ source(res.error) = None
             /\ Len(res.error.infos) = 1
             /\ IF resOp.method \in ContextMethods
                THEN /\ narrations(res.error) = <<resOp.value>>
                     /\ MachineCount(res.error.infos) = 0
                     /\ \A ty \in Types : attachments(res.error, ty) = <<>>
                ELSE /\ narrations(res.error) = <<>>
                     /\ MachineCount(res.error.infos) = 1
                     /\ attachments(res.error, resOp.type) = <<resOp.value>>

\* attach_override_with on None: an error holding the attachment only.
C20_Witness ==
    /\ resOp.trait = "ConvertOption"
    /\ resOp.method = "attach_override_with"
    /\ resPre = OptionNone
    /\ res.tag = "Err"
    /\ res.error.infos = <<Machine(resOp.type, resOp.value)>>
    /\ closure = <<"()">>

\* ---------------------------------------------------- collecting errors
\* The errors of the failed Results of a sequence of Results, in order.
ErrorsOf(results) ==
    LET IsErr(r) == r.tag = "Err"
        f == SelectSeq(results, IsErr)
    IN [i \in 1..Len(f) |-> f[i].error]

\* C21: the collection holds exactly the errors of the failed Results handed
\* to or_collect, each equal to the error the Result carried (same stack and
\* cause), in call order: a failure adds its error at the end and leaves the
\* earlier elements untouched, a success adds nothing.  The call returns
\* None for a failure and Some(v) for Ok(v).
C21_OrCollect ==
    /\ errors = ErrorsOf(passed)
    /\ passed # <<>> =>
          LET self == passed[Len(passed)]
          IN /\ opt = IF self.tag = "Ok" THEN Some(self.value) ELSE OptionNone
             /\ self.tag = "Err" =>
                   /\ narrations(errors[Len(errors)]) = narrations(self.error)
                   /\ \A ty \in Types :
                         attachments(errors[Len(errors)], ty)
                             = attachments(self.error, ty)
                   /\ source(errors[Len(errors)]) = source(self.error)

\* Two different failures were collected, the second one carrying an
\* attachment.
C21_Witness ==
    /\ Len(passed) = 2
    /\ Len(errors) = 2
    /\ errors[1] # errors[2]
    /\ attachments(errors[2], "bool") = <<"true">>
    /\ opt = OptionNone

\* --------------------------------------------------------- termination
\* The exit codes the reported value carries: those supplied since (and
\* including) the last attach_override of an ExitCode, in call order.
ExitCodes == live["ExitCode"]

\* C22: report returns ExitCode::FAILURE when the value carries no ExitCode
\* attachment and the value of an ExitCode attachment it carries otherwise
\* (the only one, when it carries one), whatever its narrations, other
\* attachments and cause are.
C22_TerminationMapping ==
    code # None =>
        /\ (ExitCodes = <<>>) <=> (attachments(err, "ExitCode") = <<>>)
        /\ ExitCodes = <<>> => code = "FAILURE"
        /\ ExitCodes # <<>> =>
              \E i \in 1..Len(ExitCodes) : code = ExitCodes[i]

\* An error with a narration, a cause and a bool attachment, to which
\* ExitCode::SUCCESS was attached, was reported as SUCCESS.
C22_Witness ==
    /\ code = "SUCCESS"
    /\ ExitCodes = <<"SUCCESS">>
    /\ narrations(err) # <<>>
    /\ source(err) # None
    /\ attachments(err, "bool") # <<>>

\* C28: with several ExitCode attachments report returns the one attached
\* last; after attach_override of an ExitCode it returns the value supplied
\* last, however many were attached before.
C28_LastExitCodeWins ==
    code # None =>
        /\ ExitCodes # <<>> => code = ExitCodes[Len(ExitCodes)]
        /\ "ExitCode" \notin overridden /\ attLog["ExitCode"] # <<>> =>
              code = attLog["ExitCode"][Len(attLog["ExitCode"])]
        /\ lastOp.op = "attach_override" /\ lastOp.type = "ExitCode" =>
              code = lastOp.value

\* Two different exit codes were attached one after the other and the value
\* was reported.
C28_Witness ==
    /\ code # None
    /\ "ExitCode" \notin overridden
    /\ Len(attLog["ExitCode"]) = 2
    /\ attLog["ExitCode"][1] # attLog["ExitCode"][2]
    /\ code = attLog["ExitCode"][2]

\* ------------------------------------------------- eviction strategies
\* How often an entry occurs in a raw stack.
Occurrences(stack, info) == Cardinality({i \in DOMAIN stack : stack[i] = info})

\* C25: after the same calls, the value built with remove-all-and-append and
\* the value built with overwrite-the-oldest-in-place give the same
\* contexts, the same attachments of every type, the same source and the same
\* Display text in both modes; their stacks hold the same entries and can
\* differ only in the order of those.
C25_EvictionStrategiesAgree ==
    /\ contexts(evict) = contexts(err)
    /\ narrations(evict) = narrations(err)
    /\ \A ty \in RunTypes : attachments(evict, ty) = attachments(err, ty)
    /\ source(evict) = source(err)
    /\ \A alternate \in BOOLEAN :
          Display_fmt(evict, alternate) = Display_fmt(err, alternate)
    /\ Len(evict.infos) = Len(err.infos)
    /\ \A i \in DOMAIN err.infos :
          Occurrences(evict.infos, err.infos[i])
              = Occurrences(err.infos, err.infos[i])

\* An attach_override has replaced an entry below other entries, so that the
\* two stacks differ in order.
C25_Witness ==
    /\ overridden # {}
    /\ evict.infos # err.infos
    /\ narrations(err) # <<>>

\* C26: an attach_override call right after an attach_override call with the
\* same value leaves the stack and the source as they are.
C26_OverrideIdempotent ==
    [][(/\ lastOp.op = "attach_override"
        /\ lastOp' = lastOp
        /\ nops' = nops + 1)
       => (/\ err'.infos = err.infos
           /\ source(err') = source(err))]_vars

\* attach_override was called twice in a row with the same value on a value
\* that held a narration and two attached entries of the type.
C26_Witness ==
    /\ lastOp.op = "attach_override"
    /\ run = 2
    /\ err = pre
    /\ Len(attLog[lastOp.type]) = 2
    /\ Len(err.infos) = 2

\* ----------------------------------------------------------- commutation
\* The last two calls are a context and an attach, in either order, or two
\* attach calls of different types.
CommutingCalls ==
    \/ prevOp.op = "context" /\ lastOp.op = "attach"
    \/ prevOp.op = "attach" /\ lastOp.op = "context"
    \/ prevOp.op = "attach" /\ lastOp.op = "attach" /\ prevOp.type # lastOp.type

\* C27: a context call and an attach call, or two attach calls of different
\* types, made in either order give the same narrations, the same
\* attachments of every type, the same source and the same Display text.
C27_ReadersCommute ==
    CommutingCalls =>
        /\ narrations(swapped) = narrations(err)
        /\ contexts(swapped) = contexts(err)
        /\ \A ty \in RunTypes : attachments(swapped, ty) = attachments(err, ty)
        /\ source(swapped) = source(err)
        /\ \A alternate \in BOOLEAN :
              Display_fmt(swapped, alternate) = Display_fmt(err, alternate)

\* context then attach were called on a value with a narration: the stack of
\* the opposite order differs.
C27_Witness ==
    /\ prevOp.op = "context"
    /\ lastOp.op = "attach"
    /\ swapped.infos # err.infos
    /\ Len(narrations(err)) >= 2

\* ------------------------------------------------------------ call sites
\* The locations of the human entries of a raw stack, in stack order.
LocationsOf(stack) ==
    LET h == SelectSeq(stack, IsHuman) IN [i \in 1..Len(h) |-> h[i].location]

\* C23: the narration entries of the error inside a Result hold, oldest
\* first, the call sites of the operations that added them: of new or
\* new_with_source for the first, of each context / context_with call of
\* CtxResultExt, ConvertResult and ConvertOption for the others.  A call that
\* adds narration stores its own call site in the newest entry and leaves the
\* entries below as they were.
C23_CallSites ==
    /\ res.tag = "Err" /\ res.type = "NeuErr" =>
          LocationsOf(res.error.infos) = sites
    /\ resOp.method \in ContextMethods /\ resPre.tag \in {"Err", "None"} =>
          /\ contexts(res.error)[1].location = resOp.location
          /\ resOp.trait = "CtxResultExt" =>
                Tail(contexts(res.error)) = contexts(resPre.error)

\* An error made by new at one call site went through context at another
\* and context_with at the first again.
C23_Witness ==
    /\ res.tag = "Err"
    /\ resOp.trait = "CtxResultExt"
    /\ resOp.method = "context_with"
    /\ Len(sites) = 3
    /\ sites[1] # sites[2]
    /\ sites[2] # sites[3]
    /\ source(res.error) # None

\* ------------------------------------------------------ into_error, wrap
\* C24: through into_error and wrap the value keeps its stack and its source:
\* the NeuErr after a round trip holds the entries, in order, and the source
\* it held before, and the NeuErrImpl in between holds the same stack and
\* gives Some from Error::source exactly when source() of the NeuErr did.
C24_RoundTrip ==
    /\ form = "NeuErr" =>
          /\ held[1].infos = err.infos
          /\ source(held[1]) = source(err)
          /\ held = wrap(err)
    /\ form = "NeuErrImpl" =>
          /\ held.infos = err.infos
          /\ (Error_source(held) # None) <=> (source(err) # None)
          /\ Error_source(held) = source(err)

\* A value with a source, a narration and an attachment went through
\* into_error and wrap.
C24_Witness ==
    /\ form = "NeuErr"
    /\ nconv = 2
    /\ source(held[1]) # None
    /\ narrations(held[1]) # <<>>
    /\ \E ty \in Types : attachments(held[1], ty) # <<>>

====
